---- MODULE Spec2Model ----
(***************************************************************************)
(* Replizieren: annotation-driven replication of Secrets and ConfigMaps    *)
(* across the namespaces of a cluster.                                     *)
(*                                                                         *)
(* The model holds the API server's store of Secrets and ConfigMaps (one   *)
(* object name, one object per namespace and kind), the work queues of the *)
(* Secret controller and of the Namespace controller and the position of   *)
(* each one's single worker inside its Reconcile, whose API calls (Get,    *)
(* List, Get, Create/Update, List+Patch) are separate steps that           *)
(* interleave with each other and with the writes of other clients.        *)
(*                                                                         *)
(* Spec runs the Secret controller alone, CascadeSpec runs both            *)
(* controllers, FairSpec runs the Secret controller with a worker that is  *)
(* never starved, LegacySpec runs both controllers with such workers,      *)
(* CoverSpec runs both with such workers while namespaces are created and  *)
(* the replicate-all source changes,                                       *)
(* RolloutSpec runs the Secret controller on a source with                 *)
(* rollout-on-update, ParseSpec calls ParseReplicationConfig on every      *)
(* annotation map, UsageSpec calls the usage detectors on every pod        *)
(* template, and RestartSpec calls the rollout triggers on a cluster some  *)
(* of whose Deployments reject a Patch.                                    *)
(*                                                                         *)
(* Strings that the code parses are sequences of tokens: a token is a run  *)
(* of name characters ("a", "true"), one blank (" ") or one comma (",").   *)
(* The string "b, c" is <<"b", ",", " ", "c">>, the empty string is <<>>,  *)
(* and a namespace named b is <<"b">>.                                     *)
(***************************************************************************)
EXTENDS Integers, Sequences, FiniteSets, TLC

(***************************************************************************)
(* Bounds                                                                  *)
(***************************************************************************)
\* highest resourceVersion the store hands out (bounds the number of writes)
MaxRV == 8
\* number of writes of other clients in one behaviour
MaxClientOps == 1

(***************************************************************************)
(* Strings                                                                 *)
(***************************************************************************)
Str(name) == <<name>>

EmptyStr == <<>>

\* index of the first comma of s, 0 when there is none
RECURSIVE IndexComma(_, _)
IndexComma(s, k) ==
    IF k > Len(s) THEN 0
    ELSE IF s[k] = "," THEN k
    ELSE IndexComma(s, k + 1)

\* strings.Split(s, ","): the pieces between commas; one piece when s has no
\* comma, also when s is empty
RECURSIVE Split(_)
Split(s) ==
    LET k == IndexComma(s, 1)
    IN  IF k = 0 THEN <<s>>
        ELSE <<SubSeq(s, 1, k - 1)>> \o Split(SubSeq(s, k + 1, Len(s)))

\* strings.TrimSpace(s): s without its leading and trailing blanks
RECURSIVE TrimSpace(_)
TrimSpace(s) ==
    IF s = <<>> THEN s
    ELSE IF Head(s) = " " THEN TrimSpace(Tail(s))
    ELSE IF s[Len(s)] = " " THEN TrimSpace(SubSeq(s, 1, Len(s) - 1))
    ELSE s

(***************************************************************************)
(* The cluster                                                             *)
(***************************************************************************)
\* every namespace that can exist in a behaviour
NsUniverse == {Str("a"), Str("b"), Str("c"), Str("kube-system"), Str("false")}

\* the sets of namespaces that can exist when the controller starts
InitialNamespaces == {{Str("a"), Str("b")}, {Str("a"), Str("b"), Str("c")}}

\* the namespace in which the annotated source Secret is created
SourceNs == Str("a")

\* values of the replizieren.dev/replicate annotation that clients write
ReplicateValues ==
    { EmptyStr,
      Str("true"),
      Str("b"),
      <<"b", ",", "c">>,
      <<"a", ",", "b">>,
      <<"b", ",", " ", "c">> }

\* values a client changes the annotation of an existing Secret to
NewReplicateValues == {EmptyStr, Str("b")}

DataValues == {"v1", "v2"}

LabelValues == {"l1", "l2"}

SecretTypes == {"Opaque", "tls"}

NoObj == [kind |-> "none"]

NoRV == 0

NoUID == 0


\* the Deployments of the cluster
Deployments == {"d1", "d2", "d3", "d4", "d5"}

\* the order in which a List call returns the Deployments
DeployOrder == <<"d1", "d2", "d3", "d4", "d5">>

\* the name of the replicated Secret and of the replicated ConfigMap
SecretName == "s"

\* a reference of a pod template to an object: the source that is set
\* (vol.Secret, vol.ConfigMap, vol.Projected; SecretRef, ConfigMapRef) and the name
Ref(kind, name) == [kind |-> kind, name |-> name]

\* the pod-template annotations the rollout trigger writes
SecretRestartedAt == "secret.restartedAt"

ConfigMapRestartedAt == "configmap.restartedAt"

\* values time.Now() can take while the controller runs
MaxTime == 1

\* what the controller's service account may be denied in a namespace
Verbs == {"get", "write", "list"}

\* the scope of a request that names no namespace
ClusterScope == <<"*">>

\* the permissions a cluster can start with: namespace and verb that are denied
DeniedPlans == {{}, {<<Str("b"), "get">>}, {<<Str("b"), "write">>}}

VARIABLES
    namespaces,   \* names of the namespaces that exist
    secrets,      \* the store: secrets[n] is the Secret named s of namespace n
    rv,           \* last resourceVersion the store handed out
    queue,        \* the Secret controller's work queue: keys (namespaces of the Secret s)
    sr,           \* the Secret controller's worker: position and locals of Reconcile
    deploys,      \* the store's Deployments
    denied,       \* <<namespace, verb>> pairs the API server forbids the controller
    clientOps,    \* writes of other clients so far
    lastUpsert,   \* history: per namespace, the source of the last successful upsert
    configmaps,   \* the store: configmaps[n] is the ConfigMap named s of namespace n
    terminating,  \* names of the namespaces that carry a deletionTimestamp
    nq,           \* the Namespace controller's work queue: namespace names
    nr,           \* the Namespace controller's worker: position and locals of Reconcile
    deploy,       \* usage detection: the Deployment a detector is called on
    resourceName, \* usage detection: the name it is called with
    using,        \* usage detection: the detectors' results
    restart,      \* the last call of a rollout trigger and what it returned
    annotations,      \* argument of ParseReplicationConfig: the annotation map
    sourceNamespace,  \* argument of ParseReplicationConfig
    config            \* what ParseReplicationConfig returned, once it was called

\* what the Secret controller and the clients of Secrets leave alone
nsvars == <<configmaps, terminating, nq, nr>>

\* what the controllers and the clients leave alone
parsevars == <<annotations, sourceNamespace, config>>

\* what no controller and no client touches: the calls of the helpers
callvars == <<deploy, resourceName, using, restart>>

vars == <<namespaces, secrets, rv, queue, sr, deploys, denied, clientOps, lastUpsert,
          configmaps, terminating, nq, nr, annotations, sourceNamespace, config,
         deploy, resourceName, using, restart>>

(***************************************************************************)
(* Objects                                                                 *)
(***************************************************************************)
\* corev1.Secret with the fields the controller and the store read or write
MkSecret(ns, data, labels, type, replicate, rollout, owners, uid, ver, cts) ==
    [kind |-> "secret", namespace |-> ns, data |-> data, labels |-> labels,
     type |-> type, replicate |-> replicate, rollout |-> rollout,
     replicateAll |-> EmptyStr, owners |-> owners, uid |-> uid, rv |-> ver, cts |-> cts]

\* corev1.ConfigMap, with the same fields but for the type and the rollout
MkConfigMap(ns, data, labels, replicate, replicateAll, owners, uid, ver, cts) ==
    [kind |-> "configmap", namespace |-> ns, data |-> data, labels |-> labels,
     replicate |-> replicate, replicateAll |-> replicateAll,
     owners |-> owners, uid |-> uid, rv |-> ver, cts |-> cts]

\* what a client can observe of a Secret besides its identity fields
Content(o) ==
    [data |-> o.data, labels |-> o.labels, type |-> o.type,
     replicate |-> o.replicate, rollout |-> o.rollout, replicateAll |-> o.replicateAll]

(***************************************************************************)
(* The API server                                                          *)
(***************************************************************************)
\* client.Get of the object named s in namespace n of a store
GetIn(store, n) ==
    IF n \in NsUniverse /\ store[n] # NoObj
    THEN [err |-> "nil", obj |-> store[n]]
    ELSE [err |-> "NotFound", obj |-> NoObj]

\* outcome of client.Create(p): the error, and the stored object when there is none
CreateIn(store, p) ==
    IF p.namespace \notin namespaces THEN [err |-> "NotFound", obj |-> NoObj]
    ELSE IF p.rv # NoRV THEN [err |-> "BadRequest", obj |-> NoObj]
    ELSE IF store[p.namespace] # NoObj THEN [err |-> "AlreadyExists", obj |-> NoObj]
    ELSE IF p.namespace \in terminating THEN [err |-> "Forbidden", obj |-> NoObj]
    ELSE [err |-> "nil",
          obj |-> [p EXCEPT !.uid = rv + 1, !.rv = rv + 1, !.cts = rv + 1]]

\* outcome of client.Update(p): the error, and the stored object when there is none
UpdateIn(store, p) ==
    IF p.namespace \notin namespaces \/ store[p.namespace] = NoObj
    THEN [err |-> "NotFound", obj |-> NoObj]
    ELSE LET old == store[p.namespace]
             new == [p EXCEPT !.uid = old.uid, !.cts = old.cts, !.rv = old.rv]
         IN  IF p.uid # NoUID /\ p.uid # old.uid THEN [err |-> "Conflict", obj |-> NoObj]
             ELSE IF p.rv # NoRV /\ p.rv # old.rv THEN [err |-> "Conflict", obj |-> NoObj]
             ELSE IF old.kind = "secret" /\ p.type # old.type
                  THEN [err |-> "Invalid", obj |-> NoObj]
             ELSE IF new = old THEN [err |-> "nil", obj |-> old]
             ELSE [err |-> "nil", obj |-> [new EXCEPT !.rv = rv + 1]]

\* the three calls on Secrets
ApiGet(n) == GetIn(secrets, n)

ApiCreate(p) == CreateIn(secrets, p)

ApiUpdate(p) == UpdateIn(secrets, p)

\* the store after a successful write returning object o
Stored(o) == [secrets EXCEPT ![o.namespace] = o]

\* workqueue.Add: a key that waits already is not added again
Add(q, k) == IF \E i \in 1..Len(q) : q[i] = k THEN q ELSE Append(q, k)

\* a watch that delivers an event for every accepted write
Enqueued_EveryWrite(o) == Add(queue, o.namespace)

\* the watch event of a write: the key is queued when the object changed
Enqueued(o) ==
    IF secrets[o.namespace] = o THEN queue ELSE Add(queue, o.namespace)

\* the names a NamespaceList holds, in the store's order
NsOrder == <<Str("a"), Str("b"), Str("c"), Str("kube-system"), Str("false")>>

ApiListNamespaces == SelectSeq(NsOrder, LAMBDA n : n \in namespaces)


(***************************************************************************)
(* SecretReconciler                                                        *)
(***************************************************************************)
NoReq == <<"none">>

\* the worker between two reconciliations
SrIdle ==
    [pc |-> "idle", req |-> NoReq, secret |-> NoObj, targets |-> <<>>, i |-> 0,
     lookup |-> "none", existing |-> NoObj, log |-> <<>>, rolled |-> <<>>,
     result |-> "none"]

\* a copy that keeps the original's uid
CloneFor_KeepUID(original, namespace) ==
    [original EXCEPT !.namespace = namespace, !.rv = NoRV]

\* replicateSecret, lines 108-111: the copy of the original that is written
CloneFor(original, namespace) ==
    [original EXCEPT !.namespace = namespace, !.rv = NoRV, !.uid = NoUID]

\* an update that carries no version
UpdatePayload_NoVersion(original, namespace, existing) ==
    [original EXCEPT !.namespace = namespace, !.rv = NoRV, !.uid = NoUID]

\* replicateSecret, line 121: the copy carries the version Get returned
UpdatePayload(original, namespace, existing) ==
    [CloneFor(original, namespace) EXCEPT !.rv = existing.rv]

\* Reconcile, lines 69-70
ReplicateTo(secret) == secret.replicate

Rollout(secret) == secret.rollout = Str("true")

\* Reconcile, line 72: nothing to do for this Secret
SkipsReplication(secret) ==
    \/ ReplicateTo(secret) = EmptyStr
    \/ ReplicateTo(secret) = Str("false") /\ ~Rollout(secret)

\* Reconcile, lines 83-85: every listed namespace but the Secret's own
AllTargets(secret, names) == SelectSeq(names, LAMBDA n : n # secret.namespace)

\* a list of which only the first entry is used
ListTargets_FirstOnly(secret) == <<Head(Split(secret.replicate))>>

\* Reconcile, line 89
ListTargets(secret) == Split(ReplicateTo(secret))

\* Reconcile, line 93: the loop body calls replicateSecret
Replicates(secret) ==
    ReplicateTo(secret) # Str("false") /\ ReplicateTo(secret) # EmptyStr

\* Reconcile, line 92: the position of the worker when the loop reaches index i
LoopAt(w, i) ==
    IF i > Len(w.targets) \/ (~Replicates(w.secret) /\ ~Rollout(w.secret))
    THEN [w EXCEPT !.i = i, !.pc = "done", !.result = "nil"]
    ELSE IF Replicates(w.secret) THEN [w EXCEPT !.i = i, !.pc = "get"]
    ELSE [w EXCEPT !.i = i, !.pc = "rollout"]

\* a loop that ends at the first failed replicateSecret
AfterError_Abort(w) == [w EXCEPT !.pc = "done", !.result = "nil"]

\* Reconcile, lines 94-97: replicateSecret failed; the error is logged and the
\* loop continues with the next namespace
AfterError(w) == LoopAt(w, w.i + 1)

\* Reconcile, lines 99-101: replicateSecret returned nil
AfterWrite(w) ==
    IF Rollout(w.secret) THEN [w EXCEPT !.pc = "rollout"] ELSE LoopAt(w, w.i + 1)

\* a Reconcile that returns every error of its Get
GetResult_Propagate(err) == err

\* Reconcile, lines 62-66 (part_003 lines 47-51): what Reconcile returns when
\* the Get of its object failed; NotFound is no error
GetResult(err) == IF err = "NotFound" THEN "nil" ELSE err

\* a reconciliation that removes the copies of a Secret that is gone
OnNotFound_Cleanup(store, k) == [n \in NsUniverse |-> IF n = k THEN store[n] ELSE NoObj]

\* Reconcile, lines 63-64: the Secret of the request is gone; nothing is cleaned up
OnNotFound(store, k) == store

\* the entry the worker's log gets for one replicateSecret call: the namespace,
\* what Get answered and found, the write that was issued and its payload, what
\* the store answered, what replicateSecret returned and the version written
LogEntry(ns, lookup, found, op, payload, answer, err, ver) ==
    [ns |-> ns, lookup |-> lookup, found |-> found, op |-> op, payload |-> payload,
     answer |-> answer, err |-> err, ver |-> ver]

\* the answer of an API call of the controller: the authorizer's, or the store's
Answer(ns, verb, storeAnswer) ==
    IF <<ns, verb>> \in denied THEN "Forbidden" ELSE storeAnswer

\* Reconcile, lines 61-90: take a request, read the Secret, resolve the targets
SR_Get(k) ==
    /\ sr.pc = "idle"
    /\ queue # <<>>
    /\ k = Head(queue)
    /\ queue' = Tail(queue)
    /\ LET err == Answer(k, "get", ApiGet(k).err)
       IN  IF err = "NotFound"
           THEN /\ sr' = [sr EXCEPT !.pc = "done", !.req = k, !.result = GetResult(err)]
                /\ secrets' = OnNotFound(secrets, k)
           ELSE /\ secrets' = secrets
                /\ IF err # "nil"
                   THEN sr' = [sr EXCEPT !.pc = "done", !.req = k, !.result = GetResult(err)]
                   ELSE LET secret == ApiGet(k).obj
                            w == [sr EXCEPT !.req = k, !.secret = secret]
                        IN  IF SkipsReplication(secret)
                            THEN sr' = [w EXCEPT !.pc = "done", !.result = "nil"]
                            ELSE IF ReplicateTo(secret) = Str("true")
                            THEN sr' = [w EXCEPT !.pc = "list"]
                            ELSE sr' = LoopAt([w EXCEPT !.targets = ListTargets(secret)], 1)
    /\ UNCHANGED <<namespaces, rv, deploys, denied, clientOps, lastUpsert, nsvars, parsevars, callvars>>

\* Reconcile, lines 79-87: list the namespaces for replicate: "true"
SR_List ==
    /\ sr.pc = "list"
    /\ LET err == Answer(ClusterScope, "list", "nil")
       IN  IF err # "nil"
           THEN sr' = [sr EXCEPT !.pc = "done", !.result = err]
           ELSE sr' = LoopAt([sr EXCEPT !.targets =
                                 AllTargets(sr.secret, ApiListNamespaces)], 1)
    /\ UNCHANGED <<namespaces, secrets, rv, queue, deploys, denied, clientOps, lastUpsert, nsvars, parsevars, callvars>>

\* a lookup that takes every error for NotFound
AfterLookup_AnyError(err) == IF err # "nil" THEN "create" ELSE "update"

\* replicateSecret, lines 115-119: where replicateSecret goes after Get answered
\* err: "create" (line 116), "return" (line 118) or "update" (line 121)
AfterLookup(err) ==
    IF err # "nil" /\ err = "NotFound" THEN "create"
    ELSE IF err # "nil" THEN "return"
    ELSE "update"

\* an upsert that leaves alone what it did not create itself
OnExisting_OwnedOnly(existing, original) ==
    IF existing.replicate = original.replicate /\ existing.owners = original.owners
    THEN "update" ELSE "skip"

\* replicateSecret, lines 118-122: whatever object Get returned is updated;
\* nothing of the existing object is looked at but its resourceVersion
OnExisting(existing, original) == "update"

\* replicateSecret, lines 115-122: the step after the lookup did not fail
AfterFound(err, existing, original) ==
    IF AfterLookup(err) = "update" THEN OnExisting(existing, original)
    ELSE AfterLookup(err)

\* replicateSecret, lines 116 and 122: the error of the write is the result
WriteReturn(answer) == answer

\* replicateSecret, lines 113-119: look the copy's name up in the namespace
SR_Lookup ==
    /\ sr.pc = "get"
    /\ LET ns == sr.targets[sr.i]
           err == Answer(ns, "get", ApiGet(ns).err)
           found == IF err = "nil" THEN ApiGet(ns).obj ELSE NoObj
           w == [sr EXCEPT !.lookup = err, !.existing = found]
       IN  IF AfterLookup(err) = "return"
           THEN sr' = AfterError([w EXCEPT !.log = Append(@,
                          LogEntry(ns, err, found, "none", NoObj, "none", err, NoRV))])
           ELSE sr' = [w EXCEPT !.pc = AfterFound(err, found, sr.secret)]
    /\ UNCHANGED <<namespaces, secrets, rv, queue, deploys, denied, clientOps, lastUpsert, nsvars, parsevars, callvars>>

\* replicateSecret, lines 116 and 121-122: the write and what it returns
SR_Write ==
    /\ sr.pc \in {"create", "update"}
    /\ LET ns == sr.targets[sr.i]
           op == sr.pc
           payload == IF op = "create" THEN CloneFor(sr.secret, ns)
                      ELSE UpdatePayload(sr.secret, ns, sr.existing)
           res == IF op = "create" THEN ApiCreate(payload) ELSE ApiUpdate(payload)
           answer == Answer(ns, "write", res.err)
           err == WriteReturn(answer)
           ver == IF answer = "nil" THEN res.obj.rv ELSE NoRV
           w == [sr EXCEPT !.log = Append(@,
                    LogEntry(ns, sr.lookup, sr.existing, op, payload, answer, err, ver))]
       IN  /\ answer = "nil" => res.obj.rv <= MaxRV
           /\ IF answer = "nil"
              THEN /\ secrets' = Stored(res.obj)
                   /\ queue' = Enqueued(res.obj)
                   /\ rv' = IF res.obj.rv > rv THEN res.obj.rv ELSE rv
                   /\ lastUpsert' = [lastUpsert EXCEPT ![ns] = sr.secret]
              ELSE UNCHANGED <<secrets, queue, rv, lastUpsert>>
           /\ sr' = IF err = "nil" THEN AfterWrite(w) ELSE AfterError(w)
    /\ UNCHANGED <<namespaces, deploys, denied, clientOps, nsvars, parsevars, callvars>>

\* isUsingSecret, lines 144-158
isUsingSecret(d, secretName) ==
    \/ \E vol \in d.volumes : vol.kind = "secret" /\ vol.name = secretName
    \/ \E envFrom \in d.envFrom : envFrom.kind = "secret" /\ envFrom.name = secretName

\* List with client.InNamespace: the Deployments of the namespace
InNamespace_Everywhere(ds, namespace) == DeployOrder

InNamespace(ds, namespace) ==
    SelectSeq(DeployOrder, LAMBDA d : ds[d].namespace = namespace)

\* the API server's answer to a Patch of the Deployment
PatchAnswer(d) == IF d.rejects THEN "Forbidden" ELSE "nil"

\* the Deployment after its pod-template annotation was set and the Patch accepted
Patched(d, annotationKey, now) ==
    IF annotationKey = SecretRestartedAt
    THEN [d EXCEPT !.restartedAt = now]
    ELSE [d EXCEPT !.cmRestartedAt = now]

\* restartDeploymentsUsingSecret, lines 130-140: the loop over the listed
\* Deployments; the error of a Patch is dropped
RECURSIVE PatchUsingSecret(_, _, _, _)
PatchUsingSecret(ds, items, secretName, now) ==
    IF items = <<>> THEN ds
    ELSE LET d == Head(items)
             after == IF isUsingSecret(ds[d], secretName) /\ PatchAnswer(ds[d]) = "nil"
                      THEN [ds EXCEPT ![d] = Patched(ds[d], SecretRestartedAt, now)]
                      ELSE ds
         IN  PatchUsingSecret(after, Tail(items), secretName, now)

\* restartDeploymentsUsingSecret, lines 125-142: the Deployments of the store
\* after the call, and the error it returns
restartDeploymentsUsingSecret(ds, secretName, namespace, now) ==
    IF Answer(namespace, "list", "nil") # "nil"
    THEN [err |-> Answer(namespace, "list", "nil"), deploys |-> ds]
    ELSE [err |-> "nil",
          deploys |-> PatchUsingSecret(ds, InNamespace(ds, namespace), secretName, now)]

\* restartDeploymentsUsingSecret, lines 125-142, called at Reconcile line 100
SR_Rollout ==
    /\ sr.pc = "rollout"
    /\ \E now \in 1..MaxTime :
        deploys' = restartDeploymentsUsingSecret(deploys, SecretName, sr.targets[sr.i], now).deploys
    /\ sr' = LoopAt([sr EXCEPT !.rolled = Append(@, sr.targets[sr.i])], sr.i + 1)
    /\ UNCHANGED <<namespaces, secrets, rv, queue, denied, clientOps, lastUpsert, nsvars, parsevars, callvars>>

\* Reconcile returns: the queue forgets the request, or adds it again after an error
SR_Return ==
    /\ sr.pc = "done"
    /\ queue' = IF sr.result = "nil" THEN queue ELSE Add(queue, sr.req)
    /\ sr' = SrIdle
    /\ UNCHANGED <<namespaces, secrets, rv, deploys, denied, clientOps, lastUpsert, nsvars, parsevars, callvars>>


(***************************************************************************)
(* NamespaceReconciler                                                     *)
(***************************************************************************)
\* the worker between two reconciliations
NrIdle ==
    [pc |-> "idle", req |-> NoReq, kind |-> "none", items |-> <<>>, j |-> 0,
     lookup |-> "none", existing |-> NoObj, log |-> <<>>, result |-> "none"]

\* the names of the protected namespaces
SystemNamespaces == {Str("kube-system"), Str("kube-public"), Str("kube-node-lease")}

IsSystemNamespace(name) == name \in SystemNamespaces

\* an intent that takes every replicate annotation for "all namespaces"
ReplicateAll_AnyTarget(o) ==
    \/ o.replicateAll = Str("true")
    \/ o.replicate # EmptyStr /\ o.replicateAll # Str("false")

\* the resolved intent of an object's annotations is "all namespaces":
\* replicate-all "true", or replicate "true" unless replicate-all is "false"
ReplicateAll(o) ==
    \/ o.replicateAll = Str("true")
    \/ o.replicate = Str("true") /\ o.replicateAll # Str("false")

\* the objects of a store that are to be replicated everywhere, in list order
ToReplicateAll(store) ==
    LET held == SelectSeq(NsOrder, LAMBDA n : store[n] # NoObj /\ ReplicateAll(store[n]))
    IN  [x \in 1..Len(held) |-> store[held[x]]]

GetSecretsToReplicateAll == ToReplicateAll(secrets)

GetConfigMapsToReplicateAll == ToReplicateAll(configmaps)

\* a loop that replicates every listed object
SkipsOwn_Never(item, ns) == FALSE

\* Reconcile, lines 76 and 93: the object lives in the namespace of the event
SkipsOwn(item, ns) == item.namespace = ns

\* the first index from j on whose object lives outside namespace ns
\* (Reconcile, lines 76-78 and 93-95), or Len(items) + 1
RECURSIVE NextItem(_, _, _)
NextItem(items, j, ns) ==
    IF j > Len(items) THEN j
    ELSE IF SkipsOwn(items[j], ns) THEN NextItem(items, j + 1, ns)
    ELSE j

\* a worker that leaves Reconcile before its first object
NrLoopAt_Leave(w, j) ==
    [w EXCEPT !.j = Len(w.items) + 1, !.pc = "done", !.result = "nil"]

\* Reconcile, lines 75 and 92: the position of the worker when a loop reaches
\* index j; after the Secrets the ConfigMaps are listed, then Reconcile returns
NrLoopAt(w, j) ==
    LET x == NextItem(w.items, j, w.req)
    IN  IF x <= Len(w.items) THEN [w EXCEPT !.j = x, !.pc = "get"]
        ELSE IF w.kind = "Secret"
        THEN [w EXCEPT !.j = 0, !.items = <<>>, !.kind = "ConfigMap", !.pc = "list"]
        ELSE [w EXCEPT !.j = x, !.pc = "done", !.result = "nil"]

\* a loop that a failed upsert ends, with the error as Reconcile's result
NrAfterReplicate_Abort(w, err) ==
    IF err = "nil" THEN NrLoopAt(w, w.j + 1)
    ELSE [w EXCEPT !.pc = "done", !.result = err]

\* Reconcile, lines 79-84 and 96-101: after replicateSecret or
\* replicateConfigMap returned, with an error (logged, continue) or without,
\* the loop goes on with the next object
NrAfterReplicate(w, err) == NrLoopAt(w, w.j + 1)

\* a check that skips only the system namespaces
Ignored_SystemOnly(k) == IsSystemNamespace(k)

\* Reconcile, lines 54-64: the namespace carries a deletionTimestamp or is a
\* system namespace
Ignored(k) == k \in terminating \/ IsSystemNamespace(k)

\* Reconcile, lines 46-66: take a request, read the Namespace, decide to scan
NR_Get(k) ==
    /\ nr.pc = "idle"
    /\ nq # <<>>
    /\ k = Head(nq)
    /\ nq' = Tail(nq)
    /\ LET err == Answer(ClusterScope, "get", IF k \in namespaces THEN "nil" ELSE "NotFound")
           w == [nr EXCEPT !.req = k]
       IN  IF err # "nil" THEN nr' = [w EXCEPT !.pc = "done", !.result = GetResult(err)]
           ELSE IF Ignored(k) THEN nr' = [w EXCEPT !.pc = "done", !.result = "nil"]
           ELSE nr' = [w EXCEPT !.pc = "list", !.kind = "Secret"]
    /\ UNCHANGED <<namespaces, secrets, rv, queue, sr, deploys, denied, clientOps,
                   lastUpsert, configmaps, terminating, parsevars, callvars>>

\* Reconcile, lines 69-73 and 86-90: list the sources of one kind
NR_List ==
    /\ nr.pc = "list"
    /\ LET err == Answer(ClusterScope, "list", "nil")
           items == IF nr.kind = "Secret" THEN GetSecretsToReplicateAll
                    ELSE GetConfigMapsToReplicateAll
       IN  IF err # "nil"
           THEN nr' = [nr EXCEPT !.pc = "done", !.result = err]
           ELSE nr' = NrLoopAt([nr EXCEPT !.items = items], 1)
    /\ UNCHANGED <<namespaces, secrets, rv, queue, sr, deploys, denied, clientOps,
                   lastUpsert, configmaps, terminating, nq, parsevars, callvars>>

\* the store of the kind the worker is replicating
NrStore == IF nr.kind = "Secret" THEN secrets ELSE configmaps

\* replicateSecret and replicateConfigMap, lines 113-119 and 131-137
NR_Lookup ==
    /\ nr.pc = "get"
    /\ LET ns == nr.req
           err == Answer(ns, "get", GetIn(NrStore, ns).err)
           found == IF err = "nil" THEN GetIn(NrStore, ns).obj ELSE NoObj
           w == [nr EXCEPT !.lookup = err, !.existing = found]
       IN  IF AfterLookup(err) = "return"
           THEN nr' = NrAfterReplicate([w EXCEPT !.log = Append(@,
                          LogEntry(ns, err, found, "none", NoObj, "none", err, NoRV))],
                          err)
           ELSE nr' = [w EXCEPT !.pc = AfterFound(err, found, nr.items[nr.j])]
    /\ UNCHANGED <<namespaces, secrets, rv, queue, sr, deploys, denied, clientOps,
                   lastUpsert, configmaps, terminating, nq, parsevars, callvars>>

\* replicateSecret and replicateConfigMap, lines 116, 121-122, 134 and 139-140;
\* Reconcile, lines 79-84 and 96-101: an error is logged and the loop continues
NR_Write ==
    /\ nr.pc \in {"create", "update"}
    /\ LET ns == nr.req
           op == nr.pc
           original == nr.items[nr.j]
           payload == IF op = "create" THEN CloneFor(original, ns)
                      ELSE UpdatePayload(original, ns, nr.existing)
           res == IF op = "create" THEN CreateIn(NrStore, payload)
                  ELSE UpdateIn(NrStore, payload)
           answer == Answer(ns, "write", res.err)
           err == WriteReturn(answer)
           ver == IF answer = "nil" THEN res.obj.rv ELSE NoRV
           w == [nr EXCEPT !.log = Append(@,
                    LogEntry(ns, nr.lookup, nr.existing, op, payload, answer, err, ver))]
       IN  /\ answer = "nil" => res.obj.rv <= MaxRV
           /\ IF answer = "nil"
              THEN /\ rv' = IF res.obj.rv > rv THEN res.obj.rv ELSE rv
                   /\ IF nr.kind = "Secret"
                      THEN /\ secrets' = Stored(res.obj)
                           /\ queue' = Enqueued(res.obj)
                           /\ lastUpsert' = [lastUpsert EXCEPT ![ns] = original]
                           /\ configmaps' = configmaps
                      ELSE /\ configmaps' = [configmaps EXCEPT ![ns] = res.obj]
                           /\ UNCHANGED <<secrets, queue, lastUpsert>>
              ELSE UNCHANGED <<secrets, queue, rv, lastUpsert, configmaps>>
           /\ nr' = NrAfterReplicate(w, err)
    /\ UNCHANGED <<namespaces, sr, deploys, denied, clientOps, terminating, nq, parsevars, callvars>>

\* Reconcile returns: the queue forgets the request, or adds it again after an error
NR_Return ==
    /\ nr.pc = "done"
    /\ nq' = IF nr.result = "nil" THEN nq ELSE Add(nq, nr.req)
    /\ nr' = NrIdle
    /\ UNCHANGED <<namespaces, secrets, rv, queue, sr, deploys, denied, clientOps,
                   lastUpsert, configmaps, terminating, parsevars, callvars>>

(***************************************************************************)
(* ParseReplicationConfig                                                  *)
(***************************************************************************)
ReplicateKey == "replizieren.dev/replicate"

RolloutOnUpdateKey == "replizieren.dev/rollout-on-update"

ReplicateAllKey == "replizieren.dev/replicate-all"

\* annotations[key] of a Go map: the empty string when the key is missing
MapGet(m, key) == IF key \in DOMAIN m THEN m[key] ELSE EmptyStr

\* a check that takes only the empty value for "no replication"
SkipsOn_EmptyOnly(replicateTo) == replicateTo = EmptyStr

\* ParseReplicationConfig, line 53
SkipsOn(replicateTo) == replicateTo = EmptyStr \/ replicateTo = Str("false")

\* ParseReplicationConfig, line 58
AllOn(replicateTo) == replicateTo = Str("true")

\* an entry that is used as it was written
Trimmed_AsWritten(ns) == ns

\* ParseReplicationConfig, line 65
Trimmed(ns) == TrimSpace(ns)

\* a filter that keeps the source namespace
Keeps_Source(ns, source) == ns # EmptyStr

\* ParseReplicationConfig, line 66
Keeps(ns, source) == ns # EmptyStr /\ ns # source

\* ParseReplicationConfig, lines 64-69: the entries of the list that are kept
ParseTargets(replicateTo, source) ==
    LET parts == Split(replicateTo)
        trimmed == [x \in 1..Len(parts) |-> Trimmed(parts[x])]
    IN  SelectSeq(trimmed, LAMBDA ns : Keeps(ns, source))

\* a resolver that marks the intent as skipped and goes on parsing
ConfigFor_NoReturn(replicateTo, rollout, source) ==
    [TargetNamespaces |-> IF AllOn(replicateTo) THEN <<>> ELSE ParseTargets(replicateTo, source),
     ReplicateAll |-> AllOn(replicateTo),
     RolloutOnUpdate |-> rollout,
     SkipReplication |-> SkipsOn(replicateTo)]

\* ParseReplicationConfig, lines 49-71: the ReplicationConfig for the two values read
ConfigFor(replicateTo, rollout, source) ==
    IF SkipsOn(replicateTo)
    THEN [TargetNamespaces |-> <<>>, ReplicateAll |-> FALSE, RolloutOnUpdate |-> rollout,
          SkipReplication |-> TRUE]
    ELSE IF AllOn(replicateTo)
    THEN [TargetNamespaces |-> <<>>, ReplicateAll |-> TRUE, RolloutOnUpdate |-> rollout,
          SkipReplication |-> FALSE]
    ELSE [TargetNamespaces |-> ParseTargets(replicateTo, source), ReplicateAll |-> FALSE,
          RolloutOnUpdate |-> rollout, SkipReplication |-> FALSE]

\* a resolver for which an explicit replicate-all "false" turns "true" into a name
ParseReplicationConfig_ExplicitFalse(m, source) ==
    IF MapGet(m, ReplicateAllKey) = Str("false") /\ MapGet(m, ReplicateKey) = Str("true")
    THEN [TargetNamespaces |-> ParseTargets(Str("true"), source), ReplicateAll |-> FALSE,
          RolloutOnUpdate |-> MapGet(m, RolloutOnUpdateKey) = Str("true"),
          SkipReplication |-> FALSE]
    ELSE ConfigFor(MapGet(m, ReplicateKey), MapGet(m, RolloutOnUpdateKey) = Str("true"), source)

\* ParseReplicationConfig, lines 45-72: only the replicate and the
\* rollout-on-update annotations are read
ParseReplicationConfig(m, source) ==
    ConfigFor(MapGet(m, ReplicateKey), MapGet(m, RolloutOnUpdateKey) = Str("true"), source)

\* no call of ParseReplicationConfig has returned
NoConfig == [kind |-> "none"]

\* the values the replicate annotation takes in the calls
ReplicateInputs ==
    {EmptyStr, Str("false"), Str("true"), Str("b"), Str("a"), <<" ">>,
     <<"a", ",", "b">>, <<"b", ",", " ", ",", "c", ",">>, <<" ", " ", "b", " ", " ">>,
     <<"b", ",", ",">>}

FlagInputs == {EmptyStr, Str("true"), Str("false")}

\* the values a key can carry
InputsOf(key) == IF key = ReplicateKey THEN ReplicateInputs ELSE FlagInputs

\* the annotation maps of the calls: every key is missing or carries a value
AnnotationMaps ==
    UNION {{m \in [D -> ReplicateInputs \cup FlagInputs] : \A k \in D : m[k] \in InputsOf(k)} :
             D \in SUBSET {ReplicateKey, RolloutOnUpdateKey, ReplicateAllKey}}

\* the source namespaces of the calls
SourceInputs == {Str("a"), Str("b"), Str("true")}

\* the call of ParseReplicationConfig on the arguments
Parse ==
    /\ config = NoConfig
    /\ config' = ParseReplicationConfig(annotations, sourceNamespace)
    /\ UNCHANGED <<namespaces, secrets, rv, queue, sr, deploys, denied, clientOps,
                   lastUpsert, nsvars, annotations, sourceNamespace, callvars>>

\* no call of ParseReplicationConfig is under way
NotParsing ==
    /\ annotations = <<>>
    /\ sourceNamespace = EmptyStr
    /\ config = NoConfig

(***************************************************************************)
(* replicator.go: usage detection and the rollout trigger                  *)
(***************************************************************************)
\* IsDeploymentUsingSecret, lines 122-136
IsDeploymentUsingSecret_AnyKind(d, secretName) ==
    \/ \E vol \in d.volumes : vol.name = secretName
    \/ \E envFrom \in d.envFrom : envFrom.name = secretName

IsDeploymentUsingSecret(d, secretName) ==
    \/ \E vol \in d.volumes : vol.kind = "secret" /\ vol.name = secretName
    \/ \E envFrom \in d.envFrom : envFrom.kind = "secret" /\ envFrom.name = secretName

\* IsDeploymentUsingConfigMap, lines 139-153
IsDeploymentUsingConfigMap(d, cmName) ==
    \/ \E vol \in d.volumes : vol.kind = "configMap" /\ vol.name = cmName
    \/ \E envFrom \in d.envFrom : envFrom.kind = "configMap" /\ envFrom.name = cmName

\* RestartDeployments, lines 106-118: the loop over the listed Deployments;
\* isUsing[d] is what the caller's function answers for Deployment d
RECURSIVE PatchEach(_, _, _, _, _)
PatchEach(ds, items, annotationKey, isUsing, now) ==
    IF items = <<>> THEN [err |-> "nil", deploys |-> ds]
    ELSE LET d == Head(items)
         IN  IF ~isUsing[d]
             THEN PatchEach(ds, Tail(items), annotationKey, isUsing, now)
             ELSE IF PatchAnswer(ds[d]) # "nil"
             THEN [err |-> "failed to patch deployment", deploys |-> ds]
             ELSE PatchEach([ds EXCEPT ![d] = Patched(ds[d], annotationKey, now)],
                            Tail(items), annotationKey, isUsing, now)

\* RestartDeployments, lines 94-119
RestartDeployments(ds, namespace, annotationKey, isUsing, now) ==
    IF Answer(namespace, "list", "nil") # "nil"
    THEN [err |-> Answer(namespace, "list", "nil"), deploys |-> ds]
    ELSE PatchEach(ds, InNamespace(ds, namespace), annotationKey, isUsing, now)

\* the kinds of resource a rollout trigger is called for
Kinds == {"Secret", "ConfigMap"}

\* the annotation the callers of RestartDeployments pass for the kind
AnnotationKeyOf(kind) ==
    IF kind = "Secret" THEN SecretRestartedAt ELSE ConfigMapRestartedAt

\* the function the callers of RestartDeployments pass for the kind
IsUsingOf(ds, kind) ==
    [d \in Deployments |->
        IF kind = "Secret"
        THEN IsDeploymentUsingSecret(ds[d], SecretName)
        ELSE IsDeploymentUsingConfigMap(ds[d], SecretName)]

\* a call of RestartDeployments for the resource s of the namespace
CallRestartDeployments(namespace, kind, now) ==
    /\ LET r == RestartDeployments(deploys, namespace, AnnotationKeyOf(kind),
                                   IsUsingOf(deploys, kind), now)
       IN  /\ deploys' = r.deploys
           /\ restart' = [called |-> TRUE, fn |-> "RestartDeployments",
                          namespace |-> namespace, kind |-> kind, now |-> now,
                          before |-> deploys, err |-> r.err]
    /\ UNCHANGED <<namespaces, secrets, rv, queue, sr, denied, clientOps, lastUpsert,
                   nsvars, parsevars, deploy, resourceName, using>>

\* a call of restartDeploymentsUsingSecret for the Secret s of the namespace
CallRestartUsingSecret(namespace, now) ==
    /\ LET r == restartDeploymentsUsingSecret(deploys, SecretName, namespace, now)
       IN  /\ deploys' = r.deploys
           /\ restart' = [called |-> TRUE, fn |-> "restartDeploymentsUsingSecret",
                          namespace |-> namespace, kind |-> "Secret", now |-> now,
                          before |-> deploys, err |-> r.err]
    /\ UNCHANGED <<namespaces, secrets, rv, queue, sr, denied, clientOps, lastUpsert,
                   nsvars, parsevars, deploy, resourceName, using>>

\* the call of the three usage detectors on the Deployment and the name
Detect ==
    /\ ~using.called
    /\ using' = [called |-> TRUE,
                 secret |-> IsDeploymentUsingSecret(deploy, resourceName),
                 configMap |-> IsDeploymentUsingConfigMap(deploy, resourceName),
                 reconciler |-> isUsingSecret(deploy, resourceName)]
    /\ UNCHANGED <<namespaces, secrets, rv, queue, sr, deploys, denied, clientOps,
                   lastUpsert, nsvars, parsevars, deploy, resourceName, restart>>

(***************************************************************************)
(* Other clients of the API server                                         *)
(***************************************************************************)
\* a client creates a Secret named s that carries no replication annotation
ExtCreateSecret(n, data, type) ==
    /\ n \in namespaces
    /\ secrets[n] = NoObj
    /\ rv < MaxRV
    /\ clientOps < MaxClientOps
    /\ clientOps' = clientOps + 1
    /\ secrets' = [secrets EXCEPT ![n] =
                     MkSecret(n, data, "l1", type, EmptyStr, EmptyStr, {},
                              rv + 1, rv + 1, rv + 1)]
    /\ rv' = rv + 1
    /\ queue' = Add(queue, n)
    /\ lastUpsert' = [lastUpsert EXCEPT ![n] = NoObj]
    /\ UNCHANGED <<namespaces, sr, deploys, denied, nsvars, parsevars, callvars>>

\* a client writes a Secret: new data, new labels or a new replicate annotation
ExtUpdateSecret(n, new) ==
    /\ secrets[n] # NoObj
    /\ rv < MaxRV
    /\ new # secrets[n]
    /\ clientOps < MaxClientOps
    /\ clientOps' = clientOps + 1
    /\ secrets' = [secrets EXCEPT ![n] = [new EXCEPT !.rv = rv + 1]]
    /\ rv' = rv + 1
    /\ queue' = Add(queue, n)
    /\ lastUpsert' = [lastUpsert EXCEPT ![n] = NoObj]
    /\ UNCHANGED <<namespaces, sr, deploys, denied, nsvars, parsevars, callvars>>

ExtSetData(n) ==
    \E d \in DataValues : secrets[n] # NoObj /\ ExtUpdateSecret(n, [secrets[n] EXCEPT !.data = d])

ExtSetLabels(n) ==
    \E l \in LabelValues : secrets[n] # NoObj /\ ExtUpdateSecret(n, [secrets[n] EXCEPT !.labels = l])

ExtSetReplicate(n) ==
    \E v \in NewReplicateValues :
        secrets[n] # NoObj /\ ExtUpdateSecret(n, [secrets[n] EXCEPT !.replicate = v])

\* a client turns a Secret into a source for every namespace
ExtSetReplicateTrue(n) ==
    secrets[n] # NoObj /\ ExtUpdateSecret(n, [secrets[n] EXCEPT !.replicate = Str("true")])

\* a client deletes a Secret
ExtDeleteSecret(n) ==
    /\ secrets[n] # NoObj
    /\ rv < MaxRV
    /\ clientOps < MaxClientOps
    /\ clientOps' = clientOps + 1
    /\ secrets' = [secrets EXCEPT ![n] = NoObj]
    /\ rv' = rv + 1
    /\ queue' = Add(queue, n)
    /\ lastUpsert' = [lastUpsert EXCEPT ![n] = NoObj]
    /\ UNCHANGED <<namespaces, sr, deploys, denied, nsvars, parsevars, callvars>>

\* the cluster finishes the deletion of a namespace: the namespace and its
\* objects are gone, and the deletion of its Secret is an event for the
\* Secret controller
FinalizeNamespace(n) ==
    /\ n \in terminating
    /\ namespaces' = namespaces \ {n}
    /\ terminating' = terminating \ {n}
    /\ secrets' = [secrets EXCEPT ![n] = NoObj]
    /\ configmaps' = [configmaps EXCEPT ![n] = NoObj]
    /\ queue' = IF secrets[n] # NoObj THEN Add(queue, n) ELSE queue
    /\ lastUpsert' = [lastUpsert EXCEPT ![n] = NoObj]
    /\ UNCHANGED <<rv, sr, deploys, denied, clientOps, nq, nr, parsevars, callvars>>

\* a client creates a namespace
CreateNamespace(n) ==
    /\ n \notin namespaces
    /\ rv < MaxRV
    /\ clientOps < MaxClientOps
    /\ clientOps' = clientOps + 1
    /\ namespaces' = namespaces \cup {n}
    /\ rv' = rv + 1
    /\ nq' = Add(nq, n)
    /\ UNCHANGED <<secrets, queue, sr, deploys, denied, lastUpsert, configmaps, terminating, nr, parsevars, callvars>>

\* a client deletes a namespace: it carries a deletionTimestamp from then on;
\* the update passes no event to the Namespace controller, whose
\* GenerationChangedPredicate drops it
DeleteNamespace(n) ==
    /\ n \in namespaces \ terminating
    /\ rv < MaxRV
    /\ clientOps < MaxClientOps
    /\ clientOps' = clientOps + 1
    /\ terminating' = terminating \cup {n}
    /\ rv' = rv + 1
    /\ UNCHANGED <<namespaces, secrets, queue, sr, deploys, denied, lastUpsert, configmaps,
                   nq, nr, parsevars, callvars>>

\* the informer's periodic resync delivers an existing Secret again
Resync(n) ==
    /\ secrets[n] # NoObj
    /\ queue = <<>>
    /\ sr.pc = "idle"
    /\ queue' = <<n>>
    /\ UNCHANGED <<namespaces, secrets, rv, sr, deploys, denied, clientOps, lastUpsert, nsvars, parsevars, callvars>>

(***************************************************************************)
(* The system                                                              *)
(***************************************************************************)
\* a Deployment nothing has restarted, whose Patch the API server accepts
MkDeployment(ns, volumes, envFrom, env) ==
    [namespace |-> ns, volumes |-> volumes, envFrom |-> envFrom, env |-> env,
     restartedAt |-> 0, cmRestartedAt |-> 0, rejects |-> FALSE]

\* d1 and d3 of namespace b and d2 of namespace a use the Secret s; d1 and d3
\* use the ConfigMap s; d4 of namespace b names another Secret and reads one
\* key of s into a variable; d5 of namespace a has no reference
InitDeploys ==
    [d \in Deployments |->
        CASE d = "d1" -> MkDeployment(Str("b"), {}, {Ref("secret", "s"), Ref("configMap", "s")}, {})
          [] d = "d2" -> MkDeployment(Str("a"), {Ref("secret", "s")}, {}, {})
          [] d = "d3" -> MkDeployment(Str("b"), {Ref("secret", "s"), Ref("configMap", "s")}, {}, {})
          [] d = "d4" -> MkDeployment(Str("b"), {Ref("secret", "t")}, {}, {Ref("secret", "s")})
          [] OTHER    -> MkDeployment(Str("a"), {}, {}, {})]

\* no usage detector and no rollout trigger has been called
NoUsage == [called |-> FALSE]

NoCall == [called |-> FALSE]

NotCalling ==
    /\ deploy = MkDeployment(EmptyStr, {}, {}, {})
    /\ resourceName = ""
    /\ using = NoUsage
    /\ restart = NoCall

\* a cluster without ConfigMaps whose Namespace controller does not run
NoCascade ==
    /\ configmaps = [n \in NsUniverse |-> NoObj]
    /\ terminating = {}
    /\ nq = <<>>
    /\ nr = NrIdle

\* the controller starts on a cluster that holds one annotated source Secret
Init ==
    /\ namespaces \in InitialNamespaces
    /\ \E v \in ReplicateValues :
         secrets = [n \in NsUniverse |->
                      IF n = SourceNs
                      THEN MkSecret(n, "v1", "l1", "Opaque", v, EmptyStr, {"owner"}, 1, 1, 1)
                      ELSE NoObj]
    /\ rv = 1
    /\ queue = <<SourceNs>>
    /\ sr = SrIdle
    /\ deploys = InitDeploys
    /\ denied \in DeniedPlans
    /\ clientOps = 0
    /\ lastUpsert = [n \in NsUniverse |-> NoObj]
    /\ NoCascade
    /\ NotParsing
    /\ NotCalling

Controller ==
    \/ \E k \in NsUniverse : SR_Get(k)
    \/ SR_List
    \/ SR_Lookup
    \/ SR_Write
    \/ SR_Return

Clients ==
    \/ \E n \in NsUniverse, t \in SecretTypes : ExtCreateSecret(n, "v2", t)
    \/ \E n \in NsUniverse : ExtSetData(n)
    \/ ExtSetLabels(SourceNs)
    \/ ExtSetReplicate(SourceNs)
    \/ \E n \in NsUniverse : ExtDeleteSecret(n)
    \/ \E n \in NsUniverse : CreateNamespace(n)
    \/ \E n \in NsUniverse : Resync(n)

Next == Controller \/ Clients

Spec == Init /\ [][Next]_vars

\* the annotations a source can carry when both controllers start
CascadeSources ==
    {<<EmptyStr, Str("true")>>, <<Str("b"), EmptyStr>>}

\* the manager starts both controllers on a cluster with a system namespace,
\* one source Secret and one source ConfigMap; every namespace that
\* exists is delivered to the Namespace controller as a creation event
CascadeInit ==
    /\ namespaces = {Str("a"), Str("b"), Str("kube-system")}
    /\ \E v \in CascadeSources :
         secrets = [n \in NsUniverse |->
                      IF n = SourceNs
                      THEN [MkSecret(n, "v1", "l1", "Opaque", v[1], EmptyStr, {"owner"}, 1, 1, 1)
                               EXCEPT !.replicateAll = v[2]]
                      ELSE NoObj]
    /\ configmaps = [n \in NsUniverse |->
                       IF n = SourceNs
                       THEN MkConfigMap(n, "v1", "l1", EmptyStr, Str("true"), {}, 2, 2, 2)
                       ELSE NoObj]
    /\ rv = 2
    /\ queue = <<SourceNs>>
    /\ nq = SelectSeq(NsOrder, LAMBDA n : n \in namespaces)
    /\ sr = SrIdle
    /\ nr = NrIdle
    /\ terminating = {}
    /\ deploys = InitDeploys
    /\ denied \in DeniedPlans
    /\ clientOps = 0
    /\ lastUpsert = [n \in NsUniverse |-> NoObj]
    /\ NotParsing
    /\ NotCalling

Cascade ==
    \/ \E k \in NsUniverse : NR_Get(k)
    \/ NR_List
    \/ NR_Lookup
    \/ NR_Write
    \/ NR_Return

\* the events of a source's life and the creation of a namespace
CascadeClients ==
    \/ ExtSetData(SourceNs)
    \/ ExtSetReplicate(SourceNs)
    \/ ExtSetReplicateTrue(SourceNs)
    \/ ExtDeleteSecret(SourceNs)
    \/ CreateNamespace(Str("c"))
    \/ DeleteNamespace(Str("b"))
    \/ FinalizeNamespace(Str("b"))

CascadeNext == Controller \/ Cascade \/ CascadeClients

CascadeSpec == CascadeInit /\ [][CascadeNext]_vars

\* the annotations of a source whose users are to be restarted
RolloutSources ==
    {Str("b"), <<"b", ",", "c">>, <<"a", ",", "b">>, <<"b", ",", "b">>,
     Str("true"), Str("false"), EmptyStr}

\* the permissions of a cluster that may also keep the controller from
\* listing the namespaces
RolloutDenied == DeniedPlans \cup {{<<ClusterScope, "list">>}}

\* the namespaces of a cluster whose tenants name their namespaces freely
RolloutNamespaces == InitialNamespaces \cup {{Str("a"), Str("b"), Str("false")}}

\* in a cluster with a namespace named false, d5 runs there and uses the Secret s
RolloutDeploys(nss) ==
    IF Str("false") \in nss
    THEN [InitDeploys EXCEPT !["d5"] = MkDeployment(Str("false"), {Ref("secret", "s")}, {}, {})]
    ELSE InitDeploys

\* the controller starts on a cluster that holds one source Secret with
\* rollout-on-update "true", a Deployment using it in its namespace and one in b
RolloutInit ==
    /\ namespaces \in RolloutNamespaces
    /\ \E v \in RolloutSources :
         secrets = [n \in NsUniverse |->
                      IF n = SourceNs
                      THEN MkSecret(n, "v1", "l1", "Opaque", v, Str("true"), {"owner"}, 1, 1, 1)
                      ELSE NoObj]
    /\ rv = 1
    /\ queue = <<SourceNs>>
    /\ sr = SrIdle
    /\ deploys = RolloutDeploys(namespaces)
    /\ denied \in RolloutDenied
    /\ clientOps = 0
    /\ lastUpsert = [n \in NsUniverse |-> NoObj]
    /\ NoCascade
    /\ NotParsing
    /\ NotCalling

RolloutClients ==
    \/ ExtSetData(SourceNs)
    \/ CreateNamespace(Str("c"))

RolloutNext == Controller \/ SR_Rollout \/ RolloutClients

RolloutSpec == RolloutInit /\ [][RolloutNext]_vars

\* ParseReplicationConfig is called on every annotation map and source namespace
ParseInit ==
    /\ annotations \in AnnotationMaps
    /\ sourceNamespace \in SourceInputs
    /\ config = NoConfig
    /\ NotCalling
    /\ namespaces = {}
    /\ secrets = [n \in NsUniverse |-> NoObj]
    /\ rv = 0
    /\ queue = <<>>
    /\ sr = SrIdle
    /\ deploys = InitDeploys
    /\ denied = {}
    /\ clientOps = 0
    /\ lastUpsert = [n \in NsUniverse |-> NoObj]
    /\ NoCascade

ParseNext == Parse

ParseSpec == ParseInit /\ [][ParseNext]_vars

\* what a volume of a pod template can refer to
VolumeRefs == {Ref(k, n) : k \in {"secret", "configMap", "projected"}, n \in {"s", "t"}}

\* what an envFrom source of a container can refer to
EnvFromRefs == {Ref(k, n) : k \in {"secret", "configMap"}, n \in {"s", "t"}}

\* what the valueFrom of a single variable can refer to
EnvRefs == {Ref("secret", "s"), Ref("configMap", "s")}

\* the Deployments the usage detectors are called on
PodTemplates ==
    {MkDeployment(Str("a"), v, f, e) :
        v \in SUBSET VolumeRefs, f \in SUBSET EnvFromRefs, e \in SUBSET EnvRefs}

\* a cluster on which no controller runs
Quiet ==
    /\ namespaces = {Str("a"), Str("b")}
    /\ secrets = [n \in NsUniverse |-> NoObj]
    /\ rv = 0
    /\ queue = <<>>
    /\ sr = SrIdle
    /\ clientOps = 0
    /\ lastUpsert = [n \in NsUniverse |-> NoObj]
    /\ NoCascade
    /\ NotParsing

\* the usage detectors are called on every pod template and both names
UsageInit ==
    /\ deploy \in PodTemplates
    /\ resourceName \in {"s", "t"}
    /\ using = NoUsage
    /\ restart = NoCall
    /\ deploys = InitDeploys
    /\ denied = {}
    /\ Quiet

UsageNext == Detect

UsageSpec == UsageInit /\ [][UsageNext]_vars

\* the Deployments whose Patch the API server can reject
Rejecting == SUBSET {"d1", "d2", "d3"}

\* the rollout triggers are called on a cluster some of whose Deployments
\* reject a Patch, and in which the controller may not be allowed to list
RestartInit ==
    /\ \E R \in Rejecting :
         deploys = [d \in Deployments |-> [InitDeploys[d] EXCEPT !.rejects = d \in R]]
    /\ denied \in {{}, {<<Str("b"), "list">>}}
    /\ restart = NoCall
    /\ deploy = MkDeployment(EmptyStr, {}, {}, {})
    /\ resourceName = ""
    /\ using = NoUsage
    /\ Quiet

RestartNext ==
    \/ \E n \in {Str("a"), Str("b")}, kind \in Kinds, now \in 1..MaxTime :
          CallRestartDeployments(n, kind, now)
    \/ \E n \in {Str("a"), Str("b")}, now \in 1..MaxTime : CallRestartUsingSecret(n, now)

RestartSpec == RestartInit /\ [][RestartNext]_vars


(***************************************************************************)
(* Properties                                                              *)
(***************************************************************************)
Range(q) == {q[i] : i \in 1..Len(q)}

\* the namespaces a comma-separated list names
ListedNamespaces(l) == {TrimSpace(e) : e \in Range(Split(l))} \ {EmptyStr}

\* the replicate annotation is a list: neither empty nor "false" nor "true"
IsStaticList(secret) ==
    ReplicateTo(secret) \notin {EmptyStr, Str("false"), Str("true")}

\* Reconcile has read its Secret and has left the loop
Reconciled == sr.pc = "done" /\ sr.secret # NoObj

AllSucceeded == \A e \in Range(sr.log) : e.err = "nil"

\* C1: Reconcile of a source with a static list, all of whose upserts
\* succeeded, has written a Secret with the source's data into every listed
\* namespace other than the source's, and into no namespace outside the list.
C1_StaticList ==
    (Reconciled /\ IsStaticList(sr.secret) /\ AllSucceeded) =>
        /\ \A n \in ListedNamespaces(ReplicateTo(sr.secret)) \ {sr.secret.namespace} :
              /\ \E e \in Range(sr.log) :
                    /\ e.ns = n
                    /\ e.op \in {"create", "update"}
                    /\ e.payload.data = sr.secret.data
              /\ lastUpsert[n] = sr.secret =>
                    secrets[n] # NoObj /\ secrets[n].data = sr.secret.data
        /\ \A e \in Range(sr.log) :
              e.op # "none" => e.ns \in ListedNamespaces(ReplicateTo(sr.secret))

C1_Witness ==
    /\ Reconciled /\ AllSucceeded
    /\ ReplicateTo(sr.secret) = <<"b", ",", "c">>
    /\ Len(sr.log) = 2
    /\ secrets[Str("b")] # NoObj /\ secrets[Str("c")] # NoObj
    /\ secrets[Str("c")].data = sr.secret.data

\* C2: the object of the last successful upsert into a namespace has the
\* content of that upsert's source, and neither the source's namespace nor its
\* uid nor its resourceVersion.
C2_RoundTrip ==
    \A n \in NsUniverse :
        lastUpsert[n] # NoObj =>
            /\ secrets[n] # NoObj
            /\ Content(secrets[n]) = Content(lastUpsert[n])
            /\ secrets[n].namespace # lastUpsert[n].namespace
            /\ secrets[n].uid # lastUpsert[n].uid
            /\ secrets[n].rv # lastUpsert[n].rv

\* C3: no write request of replicateSecret carries the source's
\* creationTimestamp or ownerReferences.
C3_IdentityCleared ==
    \A e \in Range(sr.log) :
        e.op # "none" => e.payload.cts = 0 /\ e.payload.owners = {}

\* the step is replicateSecret's Update, on a store that is as Get saw it
UpdateStep ==
    /\ sr.pc = "update"
    /\ sr' # sr
    /\ <<sr.targets[sr.i], "write">> \notin denied

UpdateTarget == sr.targets[sr.i]

\* C4: an upsert that finds the mirror with the source's content, as an
\* earlier upsert left it, returns no error and leaves the content as it is.
C4_Idempotent ==
    [][(/\ UpdateStep
        /\ lastUpsert[UpdateTarget] # NoObj
        /\ Content(lastUpsert[UpdateTarget]) = Content(sr.secret)
        /\ secrets[UpdateTarget] = sr.existing)
       => /\ sr'.log[Len(sr'.log)].err = "nil"
          /\ Content(secrets'[UpdateTarget]) = Content(secrets[UpdateTarget])]_vars

C4_Witness ==
    \E e \in Range(sr.log) :
        /\ e.op = "update" /\ e.err = "nil"
        /\ e.ns # sr.secret.namespace
        /\ e.found.owners = sr.secret.owners
        /\ Content(e.found) = Content(sr.secret)

\* C5: replicateSecret issues a Create exactly when Get answered NotFound and
\* an Update with the found object's resourceVersion exactly when Get found
\* the object; any other answer of Get is returned without a write, and the
\* write's error is returned.
C5_CreateOrUpdate ==
    \A e \in Range(sr.log) :
        /\ e.op = "create" <=> e.lookup = "NotFound"
        /\ e.op = "update" <=> e.lookup = "nil"
        /\ e.op = "update" => e.found # NoObj /\ e.payload.rv = e.found.rv
        /\ e.lookup \notin {"nil", "NotFound"} => e.op = "none" /\ e.err = e.lookup
        /\ e.op # "none" => e.err = e.answer

C5_Witness ==
    /\ \E e \in Range(sr.log) : e.op = "create" /\ e.err = "nil"
    /\ \E e \in Range(sr.log) : e.op = "update" /\ e.err = "nil"

C5_WitnessError ==
    \E e \in Range(sr.log) : e.op = "none" /\ e.err = "Forbidden"

\* C6: an Update of replicateSecret that meets an object another writer has
\* changed since Get is rejected with a conflict and changes nothing.
C6_OptimisticConcurrency ==
    [][(/\ UpdateStep
        /\ secrets[UpdateTarget] # NoObj
        /\ secrets[UpdateTarget].rv # sr.existing.rv)
       => /\ sr'.log[Len(sr'.log)].err = "Conflict"
          /\ secrets' = secrets]_vars

C6_Witness ==
    \E e \in Range(sr.log) :
        /\ e.op = "update" /\ e.err = "Conflict"
        /\ secrets[e.ns] # NoObj
        /\ secrets[e.ns].rv # e.found.rv
        /\ secrets[e.ns].data # e.payload.data

\* C7: a reconciliation one of whose writes failed with a conflict returns an
\* error.
C7_ConflictReturned ==
    (sr.pc = "done" /\ \E e \in Range(sr.log) : e.err = "Conflict") =>
        sr.result # "nil"

\* C8: replicateSecret is called for every target in turn, whatever the
\* earlier calls returned, and a failed call leaves the store as it was.
C8_ContinueOnError ==
    /\ []((Reconciled /\ Replicates(sr.secret)) =>
            [i \in 1..Len(sr.log) |-> sr.log[i].ns] = sr.targets)
    /\ [][(Len(sr'.log) = Len(sr.log) + 1 /\ sr'.log[Len(sr'.log)].err # "nil")
            => secrets' = secrets]_vars

C8_Witness ==
    /\ Reconciled
    /\ Len(sr.log) = 2
    /\ sr.log[1].err # "nil"
    /\ sr.log[2].err = "nil"
    /\ secrets[sr.log[2].ns] # NoObj

C8_WitnessKept ==
    /\ Reconciled
    /\ Len(sr.log) = 2
    /\ sr.log[1].op = "create" /\ sr.log[1].err = "nil"
    /\ sr.log[2].err # "nil"
    /\ secrets[sr.log[1].ns] # NoObj
    /\ secrets[sr.log[1].ns].rv = sr.log[1].ver

\* C9: no step of the Secret controller or of the Namespace controller
\* removes a Secret or a ConfigMap from the store, whatever the clients did
\* to the source and whichever namespaces were created.
C9_NeverDeleted ==
    [][(sr' # sr \/ nr' # nr) =>
          \A n \in NsUniverse :
              /\ secrets[n] # NoObj => secrets'[n] # NoObj
              /\ configmaps[n] # NoObj => configmaps'[n] # NoObj]_vars

\* a mirror outlives its source: the reconciliation of the deleted source is
\* over and the copies of the Secret and of a ConfigMap are still there
C9_Witness ==
    /\ sr.pc = "done"
    /\ sr.req = SourceNs
    /\ secrets[SourceNs] = NoObj
    /\ \E n \in NsUniverse \ {SourceNs} : lastUpsert[n] # NoObj /\ secrets[n] # NoObj
    /\ \E n \in NsUniverse \ {SourceNs} : configmaps[n] # NoObj

(***************************************************************************)
(* Convergence under a fairly scheduled worker                             *)
(***************************************************************************)
\* the mirror of an earlier reconciliation of the source, data v1
OldMirror(v) == MkSecret(Str("b"), "v1", "l1", "Opaque", v, EmptyStr, {"owner"}, 2, 2, 2)

\* the controller starts after the source's data was updated to v2: the
\* mirror in b is either absent or still holds v1, both keys wait in the queue
FairInit ==
    /\ namespaces \in InitialNamespaces
    /\ \E v \in {Str("b"), <<"b", ",", "c">>, Str("true")} : \E m \in {NoObj, OldMirror(v)} :
         secrets = [n \in NsUniverse |->
                      IF n = SourceNs
                      THEN MkSecret(n, "v2", "l1", "Opaque", v, EmptyStr, {"owner"}, 1, 3, 1)
                      ELSE IF n = Str("b") THEN m ELSE NoObj]
    /\ rv = 3
    /\ queue = <<SourceNs, Str("b")>>
    /\ sr = SrIdle
    /\ deploys = InitDeploys
    /\ denied = {}
    /\ clientOps = 0
    /\ lastUpsert = [n \in NsUniverse |-> NoObj]
    /\ NoCascade
    /\ NotParsing
    /\ NotCalling

\* other clients update the source's data or touch the labels of the mirror
FairClients ==
    \/ ExtSetData(SourceNs)
    \/ ExtSetLabels(Str("b"))

FairNext == Controller \/ FairClients

\* the worker is never starved of a step it can take (MaxConcurrentReconciles
\* of 1: at most one step of Reconcile is enabled at a time); clients may stop
FairSpec == FairInit /\ [][FairNext]_vars /\ WF_vars(Controller)

SourceHolds(d) == secrets[SourceNs] # NoObj /\ secrets[SourceNs].data = d

\* the existing namespaces a source names, other than its own
CurrentTargets(secret) ==
    IF ReplicateTo(secret) = Str("true") THEN namespaces \ {secret.namespace}
    ELSE (ListedNamespaces(ReplicateTo(secret)) \cap namespaces) \ {secret.namespace}

\* every current target namespace of the source holds data d
MirrorsHold(d) ==
    /\ secrets[SourceNs] # NoObj
    /\ \A n \in CurrentTargets(secrets[SourceNs]) :
          secrets[n] # NoObj /\ secrets[n].data = d

\* C10: with a fairly scheduled worker, once the source's data stays at d
\* the mirror in every current target namespace eventually holds d and keeps
\* holding it (as long as the store can still hand out versions).
C10_Convergence ==
    \A d \in DataValues :
        <>[]SourceHolds(d) => <>[](MirrorsHold(d) \/ rv = MaxRV)

(***************************************************************************)
(* The resolver of the annotations                                         *)
(***************************************************************************)
\* ParseReplicationConfig has returned
Called == config # NoConfig

ReplicateArg == MapGet(annotations, ReplicateKey)

ReplicateAllArg == MapGet(annotations, ReplicateAllKey)

\* the map m with key set to value
WithKey(m, key, value) ==
    [k \in DOMAIN m \cup {key} |-> IF k = key THEN value ELSE m[k]]

\* C11: whenever replicate-all is "true", whatever replicate is, the intent
\* has ReplicateAll true, SkipReplication false and no static target.
C11_ReplicateAllWins ==
    (Called /\ ReplicateAllArg = Str("true")) =>
        /\ config.ReplicateAll
        /\ ~config.SkipReplication
        /\ config.TargetNamespaces = <<>>

\* C12: replicate-all "false" with replicate "true" yields the one static
\* target named "true", ReplicateAll false and SkipReplication false.
C12_NamespaceNamedTrue ==
    (Called /\ ReplicateAllArg = Str("false") /\ ReplicateArg = Str("true")
            /\ sourceNamespace # Str("true")) =>
        /\ config.TargetNamespaces = <<Str("true")>>
        /\ ~config.ReplicateAll
        /\ ~config.SkipReplication

C14_SkipWhenUnset ==
    (Called /\ ReplicateArg \in {EmptyStr, Str("false")}
            /\ ReplicateAllArg \in {EmptyStr, Str("false")}) =>
        /\ config.SkipReplication
        /\ ~config.ReplicateAll
        /\ config.TargetNamespaces = <<>>

C14_Witness ==
    /\ Called
    /\ ReplicateArg = Str("false")
    /\ ReplicateAllKey \in DOMAIN annotations /\ ReplicateAllArg = Str("false")
    /\ config.SkipReplication

\* the replicate argument is a list: neither empty nor "false" nor "true"
IsListArg == ReplicateArg \notin {EmptyStr, Str("false"), Str("true")}

\* C15: for a comma-separated replicate value the targets are exactly the
\* entries with surrounding blanks trimmed and empty entries dropped (the
\* source namespace aside); "b, ,c," on source a yields b, c.
C15_ListParsing ==
    (Called /\ IsListArg /\ ReplicateAllArg # Str("true")) =>
        /\ Range(config.TargetNamespaces) = ListedNamespaces(ReplicateArg) \ {sourceNamespace}
        /\ \A ns \in Range(config.TargetNamespaces) :
              ns # EmptyStr /\ Head(ns) # " " /\ ns[Len(ns)] # " "
        /\ (ReplicateArg = <<"b", ",", " ", ",", "c", ",">> /\ sourceNamespace = Str("a")) =>
              config.TargetNamespaces = <<Str("b"), Str("c")>>

C15_Witness ==
    /\ Called
    /\ ReplicateArg = <<"b", ",", " ", ",", "c", ",">>
    /\ sourceNamespace = Str("a")
    /\ config.TargetNamespaces = <<Str("b"), Str("c")>>

\* C16: the targets ParseReplicationConfig returns never name the source
\* namespace; "a,b" on source a yields b.
C16_SelfExclusion ==
    Called =>
        /\ sourceNamespace \notin Range(config.TargetNamespaces)
        /\ (ReplicateArg = <<"a", ",", "b">> /\ sourceNamespace = Str("a")) =>
              config.TargetNamespaces = <<Str("b")>>

C16_Witness ==
    /\ Called
    /\ ReplicateArg = <<"a", ",", "b">>
    /\ sourceNamespace = Str("a")
    /\ config.TargetNamespaces = <<Str("b")>>

\* C17: the intent never has SkipReplication true together with
\* ReplicateAll true or with a target.
C17_IntentExclusive ==
    Called =>
        ~(config.SkipReplication /\ (config.ReplicateAll \/ config.TargetNamespaces # <<>>))

C17_Witness ==
    /\ Called
    /\ ReplicateArg = Str("false")
    /\ config.SkipReplication
    /\ ~config.ReplicateAll /\ config.TargetNamespaces = <<>>

(***************************************************************************)
(* What the Secret controller does with the list and with the rollout     *)
(***************************************************************************)
\* C18: the Secret controller parses the list before it writes: no
\* replicateSecret call names a namespace with surrounding blanks or an empty
\* one, and at the end of Reconcile every existing namespace the list names
\* has had its upsert.
C18_ParsedBeforeWrite ==
    /\ \A e \in Range(sr.log) : e.ns = TrimSpace(e.ns) /\ e.ns # EmptyStr
    /\ (Reconciled /\ IsStaticList(sr.secret) /\ denied = {} /\ clientOps = 0) =>
          \A n \in CurrentTargets(sr.secret) :
              \E e \in Range(sr.log) : e.ns = n /\ e.op \in {"create", "update"}

\* C19: no replicateSecret call writes into the namespace of the Secret that
\* is reconciled.
C19_NoSelfUpsert ==
    \A e \in Range(sr.log) :
        ~(e.op \in {"create", "update"} /\ e.ns = sr.secret.namespace)

\* how often the rollout trigger ran for namespace n in this reconciliation
TimesRolled(n) == Cardinality({x \in 1..Len(sr.rolled) : sr.rolled[x] = n})

\* C20: at the end of a Reconcile with rollout-on-update "true" whose upserts
\* all succeeded, the rollout trigger ran exactly once for the source
\* namespace and for each target namespace, and the Deployment of the source
\* namespace that uses the Secret is patched.
C20_RolloutEverywhere ==
    (Reconciled /\ Rollout(sr.secret) /\ Replicates(sr.secret) /\ AllSucceeded
                /\ sr.log # <<>>) =>
        /\ \A n \in {sr.secret.namespace} \cup Range(sr.targets) : TimesRolled(n) = 1
        /\ \A d \in Deployments :
              (deploys[d].namespace = sr.secret.namespace /\ isUsingSecret(deploys[d], SecretName)) =>
                  deploys[d].restartedAt # 0

\* C21: at the end of a Reconcile with rollout-on-update "true", the rollout
\* trigger has run for every namespace replicateSecret was called for, also
\* for those whose upsert failed.
C21_RolloutAfterFailure ==
    (Reconciled /\ Rollout(sr.secret) /\ Replicates(sr.secret)) =>
        \A e \in Range(sr.log) : e.err # "nil" => e.ns \in Range(sr.rolled)

\* the Deployment uses the resource the rollout trigger was last called for
UsedBefore(d) ==
    IF restart.kind = "Secret"
    THEN IsDeploymentUsingSecret(restart.before[d], SecretName)
    ELSE IsDeploymentUsingConfigMap(restart.before[d], SecretName)

\* the rollout trigger was called for the Deployment's namespace and the
\* Deployment uses the resource
Concerned(d) ==
    restart.before[d].namespace = restart.namespace /\ UsedBefore(d)

\* C22: after a call of a rollout trigger for a namespace and a kind, every
\* Deployment of another namespace and every Deployment that does not use
\* the resource is as it was before the call; when the List and every Patch
\* of the call were accepted, every Deployment of the namespace that uses the
\* resource differs from what it was only in the annotation of the kind
\* (secret.restartedAt, configmap.restartedAt), which is the time of the call.
C22_RolloutFrame ==
    restart.called =>
        \A d \in Deployments :
            /\ ~Concerned(d) => deploys[d] = restart.before[d]
            /\ (Concerned(d) /\ restart.err = "nil"
                   /\ \A o \in Deployments : Concerned(o) => ~restart.before[o].rejects)
                => deploys[d] = Patched(restart.before[d], AnnotationKeyOf(restart.kind),
                                        restart.now)

C22_Witness ==
    /\ restart.called
    /\ restart.kind = "ConfigMap"
    /\ restart.namespace = Str("b")
    /\ deploys["d1"].cmRestartedAt # 0
    /\ deploys["d3"].cmRestartedAt # 0
    /\ deploys["d1"].restartedAt = 0
    /\ deploys["d4"] = restart.before["d4"]

\* C23: each usage detector answers true exactly when a volume or an
\* envFrom source of the pod template refers to the given name with the
\* detector's kind; another name, the other kind under the same name and a
\* reference of a single variable do not count.
C23_UsageDetector ==
    using.called =>
        /\ using.secret = (Ref("secret", resourceName) \in deploy.volumes \cup deploy.envFrom)
        /\ using.configMap =
              (Ref("configMap", resourceName) \in deploy.volumes \cup deploy.envFrom)
        /\ using.reconciler = using.secret

C23_Witness ==
    /\ using.called
    /\ ~using.secret
    /\ using.configMap
    /\ Ref("secret", resourceName) \in deploy.env
    /\ \E r \in deploy.volumes : r.kind = "secret" /\ r.name # resourceName
    /\ Ref("configMap", resourceName) \in deploy.envFrom

\* C24: after a call of a rollout trigger whose List was accepted, every
\* Deployment of the namespace that uses the resource and whose own Patch
\* the API server accepts carries the annotation of the call, whatever
\* happened to the Patch of another Deployment.
C24_PatchFailureNoAbort ==
    (restart.called /\ <<restart.namespace, "list">> \notin denied) =>
        \A d \in Deployments :
            (Concerned(d) /\ ~restart.before[d].rejects) =>
                deploys[d] = Patched(restart.before[d], AnnotationKeyOf(restart.kind),
                                     restart.now)

\* the source asks for a rollout and names no replication target
RolloutOnly(secret) ==
    Rollout(secret) /\ ReplicateTo(secret) \in {EmptyStr, Str("false")}

\* C25: while the only annotated Secret of the cluster has rollout-on-update
\* "true" and a replicate annotation that is missing, empty or "false", the
\* controller writes no Secret and no Deployment carries a restart annotation.
C25_RolloutAloneNoEffect ==
    (secrets[SourceNs] # NoObj /\ RolloutOnly(secrets[SourceNs])) =>
        /\ \A n \in NsUniverse \ {SourceNs} : secrets[n] = NoObj
        /\ \A d \in Deployments : deploys[d].restartedAt = 0

(***************************************************************************)
(* The namespace cascade                                                   *)
(***************************************************************************)
\* the log entry records a create or an update that was sent
IsWrite(e) == e.op \in {"create", "update"}

\* the object asks for replication into all namespaces
AllNamespacesSource(o) ==
    \/ o.replicateAll = Str("true")
    \/ o.replicate = Str("true") /\ o.replicateAll # Str("false")

C28_NoSystemMirror ==
    \A e \in Range(sr.log) \cup Range(nr.log) :
        (IsWrite(e) /\ AllNamespacesSource(e.payload)) => e.ns \notin SystemNamespaces

\* C29: when the Namespace controller takes the event of an existing
\* namespace that is terminating or a system namespace, and may read it,
\* Reconcile ends in that step with a nil result, having listed nothing and
\* logged no call, and the stores are as they were.
C29_Ignored ==
    [][(/\ nr.pc = "idle"
        /\ nr'.pc # "idle"
        /\ Head(nq) \in namespaces
        /\ <<ClusterScope, "get">> \notin denied
        /\ (Head(nq) \in terminating \/ Head(nq) \in SystemNamespaces))
       => (/\ nr'.pc = "done"
           /\ nr'.result = "nil"
           /\ nr'.kind = "none"
           /\ nr'.items = <<>>
           /\ nr'.log = <<>>
           /\ UNCHANGED <<secrets, configmaps>>)]_vars

C29_Witness ==
    /\ nr.pc = "done"
    /\ nr.req \in terminating
    /\ nr.req \in namespaces
    /\ nr.kind = "none"
    /\ nr.result = "nil"
    /\ configmaps[SourceNs] # NoObj
    /\ configmaps[nr.req] = NoObj

\* C30: whenever the Namespace controller is replicating an object, the
\* object comes from another namespace than the one of the event.
C30_NoCascadeIntoOwn ==
    nr.pc \in {"get", "create", "update"} => nr.items[nr.j].namespace # nr.req

C30_Witness ==
    /\ nr.pc = "done"
    /\ nr.req = SourceNs
    /\ nr.kind = "ConfigMap"
    /\ \E x \in 1..Len(nr.items) : nr.items[x].namespace = nr.req
    /\ \A e \in Range(nr.log) : e.payload = NoObj \/ e.payload.cts # configmaps[SourceNs].cts

(***************************************************************************)
(* The legacy annotation and a namespace created later                     *)
(***************************************************************************)
\* both controllers are idle on a cluster whose Secret of namespace a carries
\* only replicate "true" and was reconciled before: its mirror is in b
LegacyInit ==
    /\ namespaces = {Str("a"), Str("b")}
    /\ secrets = [n \in NsUniverse |->
                    IF n = SourceNs
                    THEN MkSecret(n, "v1", "l1", "Opaque", Str("true"), EmptyStr, {"owner"}, 1, 1, 1)
                    ELSE IF n = Str("b") THEN OldMirror(Str("true")) ELSE NoObj]
    /\ rv = 2
    /\ queue = <<>>
    /\ sr = SrIdle
    /\ deploys = InitDeploys
    /\ denied \in DeniedPlans
    /\ clientOps = 0
    /\ lastUpsert = [n \in NsUniverse |-> NoObj]
    /\ NoCascade
    /\ NotParsing
    /\ NotCalling

\* a client creates the namespace c, or updates the data of the source
LegacyClients ==
    \/ CreateNamespace(Str("c"))
    \/ ExtSetData(SourceNs)

LegacyNext == Controller \/ Cascade \/ LegacyClients

\* each controller has a worker of its own, which is never starved of a
\* step it can take; clients may stop
LegacySpec ==
    LegacyInit /\ [][LegacyNext]_vars /\ WF_vars(Controller) /\ WF_vars(Cascade)

\* C27: once the namespace c exists, it eventually holds a Secret with the
\* legacy annotation replicate "true" of the source.
C27_LegacyReachesNew ==
    [](Str("c") \in namespaces =>
          <>(secrets[Str("c")] # NoObj /\ secrets[Str("c")].replicate = Str("true")))

C27_Witness ==
    /\ nr.pc = "done"
    /\ nr.req = Str("c")
    /\ secrets[Str("c")] # NoObj
    /\ secrets[SourceNs].replicateAll = EmptyStr
    /\ \E e \in Range(nr.log) :
          /\ e.op = "create"
          /\ e.answer = "nil"
          /\ e.payload.replicate = Str("true")
          /\ e.payload.replicateAll = EmptyStr

(***************************************************************************)
(* Errors and their reach                                                  *)
(***************************************************************************)
Last(q) == q[Len(q)]

\* the indexes after j of the listed objects that live outside the
\* namespace of the event
Remaining(w) ==
    {x \in (w.j + 1)..Len(w.items) : w.items[x].namespace # w.req}

\* C31: when an upsert of the Namespace controller fails, Reconcile goes on
\* with the next listed object of another namespace; when no Secret is left
\* it lists the ConfigMaps, and when no ConfigMap is left it returns nil.
C31_CascadeGoesOn ==
    [][(/\ nr.pc \in {"get", "create", "update"}
        /\ Len(nr'.log) = Len(nr.log) + 1
        /\ Last(nr'.log).err # "nil")
       => IF Remaining(nr) # {}
          THEN /\ nr'.pc = "get"
               /\ nr'.j \in Remaining(nr)
               /\ \A x \in Remaining(nr) : nr'.j <= x
               /\ nr'.items = nr.items
          ELSE IF nr.kind = "Secret"
          THEN nr'.pc = "list" /\ nr'.kind = "ConfigMap"
          ELSE nr'.pc = "done" /\ nr'.result = "nil"]_vars

C31_Witness ==
    /\ nr.pc = "done"
    /\ nr.result = "nil"
    /\ Len(nr.log) >= 2
    /\ nr.log[1].err # "nil"
    /\ nr.log[1].payload.kind \in {"secret", "none"}
    /\ Last(nr.log).payload.kind \in {"configmap", "none"}
    /\ nr.kind = "ConfigMap"

(***************************************************************************)
(* Both controllers on a source for all namespaces                         *)
(***************************************************************************)
\* the annotations replicate and replicate-all of a source for all namespaces
CoverSources == {<<EmptyStr, Str("true")>>, <<Str("true"), EmptyStr>>}

\* both controllers run on the namespaces a and b when a client creates the
\* source in a: its event waits in the queue of the Secret controller; the
\* creation event of b was handled before, or still waits
CoverInit ==
    /\ namespaces = {Str("a"), Str("b")}
    /\ \E v \in CoverSources :
         secrets = [n \in NsUniverse |->
                      IF n = SourceNs
                      THEN [MkSecret(n, "v1", "l1", "Opaque", v[1], EmptyStr, {"owner"}, 1, 1, 1)
                               EXCEPT !.replicateAll = v[2]]
                      ELSE NoObj]
    /\ configmaps = [n \in NsUniverse |-> NoObj]
    /\ rv = 1
    /\ queue = <<SourceNs>>
    /\ nq \in {<<>>, <<Str("b")>>}
    /\ sr = SrIdle
    /\ nr = NrIdle
    /\ terminating = {}
    /\ deploys = InitDeploys
    /\ denied = {}
    /\ clientOps = 0
    /\ lastUpsert = [n \in NsUniverse |-> NoObj]
    /\ NotParsing
    /\ NotCalling

\* a client creates the namespace c, or updates the data of the source
CoverClients ==
    \/ CreateNamespace(Str("c"))
    \/ ExtSetData(SourceNs)

CoverNext == Controller \/ Cascade \/ CoverClients

\* each controller has a worker of its own, which is never starved of a
\* step it can take; clients may stop
CoverSpec ==
    CoverInit /\ [][CoverNext]_vars /\ WF_vars(Controller) /\ WF_vars(Cascade)

\* both workers are idle and both queues are empty
AtRest ==
    /\ sr.pc = "idle"
    /\ nr.pc = "idle"
    /\ queue = <<>>
    /\ nq = <<>>

\* C32: when both controllers have come to rest on a cluster whose source
\* carries replicate-all "true", every namespace that is neither a system
\* namespace nor the source's own holds a Secret of the source's name.
C32_CoverageAtRest ==
    (/\ AtRest
     /\ secrets[SourceNs] # NoObj
     /\ secrets[SourceNs].replicateAll = Str("true"))
    => \A n \in namespaces \ (SystemNamespaces \cup {SourceNs}) : secrets[n] # NoObj

\* C36: while the source holds v2, no write of a controller that carries v1
\* succeeds in a namespace whose Secret holds v2.
C36_NoRegression ==
    [][\A n \in NsUniverse \ {SourceNs} :
          (/\ secrets[SourceNs] # NoObj
           /\ secrets[SourceNs].data = "v2"
           /\ secrets[n] # NoObj
           /\ secrets[n].data = "v2"
           /\ secrets'[n] # NoObj)
          => secrets'[n].data = "v2"]_vars

\* C33: when a Reconcile may read its object and the object is gone (the
\* Secret of the request, the namespace of the event), it ends in that step
\* with a nil result, having logged no call and restarted nothing, and the
\* Secrets, ConfigMaps and Deployments are as they were.
C33_NotFoundBenign ==
    [][/\ (/\ sr.pc = "idle"
           /\ sr'.pc # "idle"
           /\ secrets[Head(queue)] = NoObj
           /\ <<Head(queue), "get">> \notin denied)
          => (/\ sr'.pc = "done"
              /\ sr'.result = "nil"
              /\ sr'.log = <<>>
              /\ sr'.rolled = <<>>
              /\ UNCHANGED <<secrets, configmaps, deploys>>)
       /\ (/\ nr.pc = "idle"
           /\ nr'.pc # "idle"
           /\ Head(nq) \notin namespaces
           /\ <<ClusterScope, "get">> \notin denied)
          => (/\ nr'.pc = "done"
              /\ nr'.result = "nil"
              /\ nr'.kind = "none"
              /\ nr'.log = <<>>
              /\ UNCHANGED <<secrets, configmaps, deploys>>)]_vars

C33_Witness ==
    /\ nr.pc = "done"
    /\ nr.req \notin namespaces
    /\ nr.result = "nil"
    /\ nr.log = <<>>
    /\ configmaps[SourceNs] # NoObj

\* C34: a Reconcile that has read its Secret returns nil, whatever happened
\* to the listing of the namespaces, to a write or to a Patch.
C34_OnlySourceErrors ==
    Reconciled => sr.result = "nil"

\* C35: while the worker reconciles the Secret of another namespace, the
\* Secret of the source's namespace changes only in a step of another client.
C35_SourceAuthoritative ==
    [][(/\ secrets[SourceNs] # NoObj
        /\ secrets'[SourceNs] # secrets[SourceNs]
        /\ sr.req # SourceNs)
          => clientOps' # clientOps]_vars

C38_NoOwnershipCheck ==
    [][/\ (sr.pc = "get" /\ sr'.pc # "get" /\ sr'.lookup = "nil")
            => /\ sr'.pc = "update"
               /\ sr'.existing = secrets[sr.targets[sr.i]]
       /\ (/\ sr.pc = "update"
           /\ Len(sr'.log) = Len(sr.log) + 1
           /\ Last(sr'.log).answer = "nil")
            => Content(secrets'[sr.targets[sr.i]]) = Content(sr.secret)]_vars

\* an object a client created, with other data and no annotation, was overwritten
C38_Witness ==
    \E i \in DOMAIN sr.log :
        LET e == sr.log[i]
        IN  /\ e.op = "update"
            /\ e.answer = "nil"
            /\ e.found.replicate = EmptyStr
            /\ e.found.owners = {}
            /\ e.found.data # e.payload.data
            /\ secrets[e.ns] # NoObj
            /\ Content(secrets[e.ns]) = Content(e.payload)

\* the writes one reconciliation has sent for the namespace
WritesTo(n) == {i \in DOMAIN sr.log : sr.log[i].ns = n /\ sr.log[i].op # "none"}

\* C39: the resolved targets form a set: no namespace stands twice among the
\* targets of a reconciliation, and one reconciliation sends at most one
\* create or update to a namespace and restarts its Deployments at most once.
C39_TargetsFormSet ==
    /\ \A i, j \in DOMAIN sr.targets : sr.targets[i] = sr.targets[j] => i = j
    /\ \A n \in NsUniverse : Cardinality(WritesTo(n)) <= 1
    /\ \A n \in NsUniverse : TimesRolled(n) <= 1

====
